---- MODULE Spec2Model ----
(***************************************************************************)
(* mutavault, `kv listall`: the recursive, concurrent walk of a kvv2       *)
(* engine (src/main.go, listall / listSecretDirRecurse / listSecretDir /   *)
(* interfaceSliceToStringSlice); `kv getcustommetas` and                   *)
(* `kv setcustommetas` follow, each a command of its own with its own      *)
(* specification (GetSpec, SetSpec).                                       *)
(*                                                                         *)
(* Strings are sequences of one-character strings, so that path + subPath  *)
(* is \o, strings.HasSuffix inspects the last characters and path[1:] is   *)
(* SubSeq.  One goroutine runs per walker; a walker is identified by the   *)
(* path it was called with.  The remote store answers each list call with  *)
(* a response that is fixed per path and recorded in remote when the call  *)
(* returns.  The two halves of an append to a shared slice (reading the     *)
(* slice header, storing the longer slice) are separate steps, so that     *)
(* appends which no lock orders can overlap and lose an element.           *)
(***************************************************************************)
EXTENDS Integers, Sequences, FiniteSets, TLC

\* ------------------------------------------------------------------ bounds
\* Directory entries the remote store holds in all its listings together.
MaxDirs == 2
\* Listings the remote store answers with a fault (403, 5xx, no data, ...).
MaxFaults == 1
\* Gate capacities tried besides the program's own: 1..MaxSmallCap.
MaxSmallCap == 1
\* Argument paths of a getcustommetas run.
MaxArgs == 3
\* Records in the input of a setcustommetas run.
MaxRecords == 2

\* const concurrency int64 = 10
concurrency == 10

Capacities == (1..MaxSmallCap) \cup {concurrency}

\* ----------------------------------------------------------------- strings
Sep == "/"
RootPath == <<Sep>>

Range(s) == {s[k] : k \in 1..Len(s)}

\* strings.HasSuffix(s, suffix)
HasSuffix(s, suffix) ==
    /\ Len(s) >= Len(suffix)
    /\ SubSeq(s, Len(s) - Len(suffix) + 1, Len(s)) = suffix

\* path[1:]
StripFirst(path) == SubSeq(path, 2, Len(path))

\* ------------------------------------------------- values of the remote
\* An element of data.Data["keys"]: an interface{} holding a string or not.
Str(s) == [type |-> "string", val |-> s]
NonString == [type |-> "number", val |-> <<"7">>]

\* Names the store uses: directory names end in the separator.  The walk
\* reads a name only to tell a directory from a leaf, so the directories of
\* one listing are named in this order (b/ only after a/).
DirOrder == <<<<"a", Sep>>, <<"b", Sep>>>>
LeafNames == {<<"x">>}

IsDirEntry(e) == e.type = "string" /\ HasSuffix(e.val, <<Sep>>)

\* What ListWithContext returns: (data, err).
\*   ok        data.Data["keys"] is the []interface{} keys
\*   nokeys    data without a keys list
\*   nil       data == nil, err == nil
\*   forbidden *api.ResponseError with StatusCode 403; keys is what the store
\*             holds at the path and refuses to show
\*   error     any other error of the remote call
\*   canceled  the call was abandoned because ctx was cancelled
Resp(kind, keys) == [kind |-> kind, keys |-> keys]

RECURSIVE DistinctSeqs(_, _)
DistinctSeqs(S, n) ==
    IF n = 0 THEN {<<>>}
    ELSE LET shorter == DistinctSeqs(S, n - 1)
         IN  shorter \cup
             {Append(x[1], x[2]) :
                 x \in {y \in shorter \X S :
                           Len(y[1]) = n - 1 /\ y[2] \notin Range(y[1])}}

DirsOf(keys) == SelectSeq(keys, IsDirEntry)
NDirs(keys) == Len(DirsOf(keys))
AllStrings(keys) == \A k \in 1..Len(keys) : keys[k].type = "string"

\* The directory names a listing may use when the store has db directory
\* entries left.
DirNames(db) ==
    Range(SubSeq(DirOrder, 1, IF db < Len(DirOrder) THEN db ELSE Len(DirOrder)))

\* The listings a store with db directory entries left may hold: distinct
\* names, in any order but for the order of the directories.
Listings(db) ==
    LET names == DirNames(db) \cup LeafNames
    IN  {l \in DistinctSeqs({Str(n) : n \in names}, Cardinality(names)) :
            DirsOf(l) = [k \in 1..NDirs(l) |-> Str(DirOrder[k])]}

\* Listings with a non-string element: it follows a valid name, so that the
\* conversion has accepted an element before it meets the bad one.
BadListings(db) ==
    {<<Str(n), NonString>> : n \in DirNames(IF db > 0 THEN 1 ELSE 0) \cup LeafNames}

\* What a forbidden directory holds out of sight: a leaf, and a directory
\* when the store has one left.
HiddenListings(db) ==
    {l \in Listings(IF db > 0 THEN 1 ELSE 0) :
        /\ Len(l) = (IF db > 0 THEN 2 ELSE 1)
        /\ ~IsDirEntry(l[Len(l)])}

\* The answers the store may give for a path not asked before, when it has
\* db directory entries and fb faults left.
GoodResponses == [db \in 0..MaxDirs |-> {Resp("ok", l) : l \in Listings(db)}]
FaultResponses ==
    [db \in 0..MaxDirs |->
        {Resp("forbidden", l) : l \in HiddenListings(db)}
        \cup {Resp("ok", l) : l \in BadListings(db)}
        \cup {Resp("error", <<>>), Resp("nil", <<>>), Resp("nokeys", <<>>)}]
Responses(db, fb) ==
    GoodResponses[db] \cup (IF fb > 0 THEN FaultResponses[db] ELSE {})

IsFault(r) == r.kind # "ok" \/ ~AllStrings(r.keys)

\* ------------------------------------------------------------------ errors
NoErr == [kind |-> "nil", path |-> <<>>, cause |-> "nil"]
\* ctx.Err() after cancellation
CtxErr == [kind |-> "ctx", path |-> <<>>, cause |-> "canceled"]
\* fmt.Errorf("failed to list keys in %s: %w", path, err)
ListErr(path, cause) == [kind |-> "list", path |-> path, cause |-> cause]
\* fmt.Errorf("secret metadata at %s did not contain the expected keys", path)
NoKeysErr(path) == [kind |-> "nokeys", path |-> path, cause |-> "nil"]
\* errors.New("element is not a string")
NotStringErr == [kind |-> "notstring", path |-> <<>>, cause |-> "nil"]
\* fmt.Errorf("retrieved secret keys that are not strings: %w", err)
KeysErr(cause) == [kind |-> "keys", path |-> <<>>, cause |-> cause.kind]

\* ------------------------------------------------------------------ slices
\* A Go slice: nil or a (possibly empty) sequence of elements.
NilSlice == [isnil |-> TRUE, elems |-> <<>>]
Slice(s) == [isnil |-> FALSE, elems |-> s]
\* append(s, x...)
AppendAll(s, xs) == Slice(s.elems \o xs)

\* Result[[]string]{value, err}
Result(value, err) == [value |-> value, err |-> err]

\* func interfaceSliceToStringSlice(s []interface{}) ([]string, error)
RECURSIVE interfaceSliceToStringSlice(_)
interfaceSliceToStringSlice(s) ==
    IF s = <<>> THEN Result(Slice(<<>>), NoErr)
    ELSE IF Head(s).type # "string" THEN Result(NilSlice, NotStringErr)
    ELSE LET rest == interfaceSliceToStringSlice(Tail(s))
         IN  IF rest.err # NoErr THEN rest
             ELSE Result(Slice(<<Head(s).val>> \o rest.value.elems), NoErr)

\* ------------------------------------------------------------------- state
VARIABLES
    size,        \* capacity of sema (semaphore.NewWeighted(concurrency))
    cur,         \* slots of sema taken
    cancelled,   \* ctx.Done() is closed
    remote,      \* path -> the store's answer, for the paths asked so far
    dirBudget,   \* directory entries the store may still reveal
    faultBudget, \* faulty answers the store may still give
    pc,          \* walker -> where its goroutine stands
    parent,      \* walker -> the walker that spawned it
    resp,        \* walker -> (data, err) of its ListWithContext call
    subPaths,    \* walker -> subPaths of listSecretDirRecurse
    idx,         \* walker -> position of the range loop over subPaths
    loaded,      \* walker -> the slice header read by the append under way
    result,      \* walker -> its shared []Result[[]string]
    mutex,       \* walker -> the child holding its mutex, or NoOne
    wg,          \* walker -> counter of its sync.WaitGroup
    ret,         \* walker -> what its listSecretDirRecurse returned
    acquired,    \* walker -> successful sema.Acquire calls it made
    released,    \* walker -> sema.Release calls it made
    stderr,      \* paths reported as forbidden
    stdout,      \* lines printed by listall
    listallRet,  \* error returned by listall
    lpc,         \* where listall stands: "walk" or "done"
    gcm,         \* a run of getcustommetas: its locals, goroutines and output
    scm          \* a run of setcustommetas: its input, loop, calls and the store

gate == <<size, cur, cancelled>>
store == <<remote, dirBudget, faultBudget>>
locals == <<resp, subPaths, idx, loaded, ret>>
shared == <<result, mutex, wg>>
history == <<acquired, released>>
output == <<stderr, stdout, listallRet, lpc>>
\* The state of listall, and the state of the two other commands.
walk == <<gate, store, pc, parent, locals, shared, history, output>>
others == <<gcm, scm>>
vars == <<walk, others>>

NoOne == <<>>
Walkers == DOMAIN pc
Children(w) == {c \in Walkers : parent[c] = w}

\* A walker whose listSecretDirRecurse call has returned.
Returned(w) == pc[w] \in {"returned", "locked", "done"}
\* A child goroutine that has ended (wg.Done() ran).
Ended(w) == pc[w] = "done"
\* The walker stands in wg.Wait().
AtWait(w) == pc[w] = "loop" /\ idx[w] > Len(subPaths[w])

\* Walker p does wg.Add(1) and starts the goroutine of walker w, which calls
\* listSecretDirRecurse(ctx, sema, client, mount, w); p goes on with its loop.
StartWalker(w, p) ==
    /\ pc' = (w :> "acquire") @@ pc
    /\ parent' = (w :> p) @@ parent
    /\ resp' = (w :> Resp("nil", <<>>)) @@ resp
    /\ subPaths' = (w :> <<>>) @@ subPaths
    /\ idx' = (w :> 1) @@ [idx EXCEPT ![p] = @ + 1]
    /\ wg' = (w :> 0) @@ [wg EXCEPT ![p] = @ + 1]
    /\ loaded' = (w :> NilSlice) @@ loaded
    /\ result' = (w :> NilSlice) @@ result
    /\ mutex' = (w :> NoOne) @@ mutex
    /\ ret' = (w :> Result(NilSlice, NoErr)) @@ ret
    /\ acquired' = (w :> 0) @@ acquired
    /\ released' = (w :> 0) @@ released

\* ------------------------------------------- the two other commands' values
\* The secrets the metadata commands are asked about.
MetaPaths == {<<"p">>, <<"q">>}

RECURSIVE SeqsUpTo(_, _)
SeqsUpTo(S, n) ==
    IF n = 0 THEN {<<>>}
    ELSE LET shorter == SeqsUpTo(S, n - 1)
         IN  shorter \cup {Append(x[1], x[2]) :
                               x \in {y \in shorter \X S : Len(y[1]) = n - 1}}

\* ctx.Args().Slice()
ArgLists == SeqsUpTo(MetaPaths, MaxArgs)

\* getcustommetas up to its loop: result := make([]Result[map[string]any], 0),
\* mutex, wg, sema := semaphore.NewWeighted(concurrency).
\*   args       ctx.Args().Slice()
\*   size, cur  capacity of sema, slots taken
\*   cancelled  ctx.Context is done
\*   pc         goroutine k (started for args[k]) -> where it stands
\*   meta       goroutine k -> (meta, err) of its GetMetadata call
\*   loaded     goroutine k -> the slice header read by its append under way
\*   result, mutex, wg   the shared slice, the goroutine holding the mutex
\*              (0: none), the counter of the WaitGroup
\*   main       where getcustommetas stands: "loop" or "done"
\*   ret, out   the error returned, the documents written to os.Stdout
GetStart(a, c) ==
    [args |-> a, size |-> c, cur |-> 0, cancelled |-> FALSE,
     pc |-> <<>>, meta |-> <<>>, loaded |-> <<>>,
     result |-> <<>>, mutex |-> 0, wg |-> 0,
     main |-> "loop", ret |-> NoErr, out |-> <<>>]

\* getcustommetas is not the command run.
GetIdle == GetStart(<<>>, concurrency)

\* The objects of the input: custom metadata (val) with the path of the
\* secret under "path"; the key may be missing (Missing) or hold a value that
\* is no string.
Vals == {"v", "w"}
Missing == [type |-> "missing", val |-> <<>>]
Records ==
    {[path |-> x, val |-> v] :
        x \in {Str(q) : q \in MetaPaths} \cup {NonString, Missing}, v \in Vals}

\* What os.Stdin may hold: a JSON list of objects, or something else.
Inputs ==
    {[json |-> FALSE, objects |-> <<>>]}
    \cup {[json |-> TRUE, objects |-> l] : l \in SeqsUpTo(Records, MaxRecords)}

\* The custom metadata the store holds per secret; Absent: no such secret.
Absent == [path |-> Missing, val |-> "absent"]
MetaStores == [MetaPaths -> {Absent, [path |-> Missing, val |-> "old"]}]

\* setcustommetas before it reads os.Stdin.
\*   stdin        what os.Stdin holds
\*   customMetas  the decoded input
\*   pos          position of the range loop over customMetas
\*   calls        the calls made to the store, in order, with their outcomes
\*   kv0, kv      the store before the command, and now
\*   pc           "decode", "get" (before GetMetadata), "put" (before
\*                PutMetadata) or "done"
\*   ret          the error returned
SetStart(in, kv) ==
    [stdin |-> in, customMetas |-> <<>>, pos |-> 1, calls |-> <<>>,
     kv0 |-> kv, kv |-> kv, pc |-> "decode", ret |-> NoErr]

\* setcustommetas is not the command run.
SetIdle ==
    SetStart([json |-> TRUE, objects |-> <<>>], [q \in MetaPaths |-> Absent])

\* listall up to its call of listSecretDirRecurse(ctx.Context, sema, client, mount, "/").
InitWith(dirs, faults) ==
    /\ size \in Capacities
    /\ cur = 0
    /\ cancelled = FALSE
    /\ remote = <<>>
    /\ dirBudget = dirs
    /\ faultBudget = faults
    /\ pc = (RootPath :> "acquire")
    /\ parent = (RootPath :> NoOne)
    /\ resp = (RootPath :> Resp("nil", <<>>))
    /\ subPaths = (RootPath :> <<>>)
    /\ idx = (RootPath :> 1)
    /\ loaded = (RootPath :> NilSlice)
    /\ result = (RootPath :> NilSlice)
    /\ mutex = (RootPath :> NoOne)
    /\ wg = (RootPath :> 0)
    /\ ret = (RootPath :> Result(NilSlice, NoErr))
    /\ acquired = (RootPath :> 0)
    /\ released = (RootPath :> 0)
    /\ stderr = <<>>
    /\ stdout = <<>>
    /\ listallRet = NoErr
    /\ lpc = "walk"

\* The process runs one command: the two others never start.
Init ==
    /\ InitWith(MaxDirs, MaxFaults)
    /\ gcm = GetIdle
    /\ scm = SetIdle

\* The same, for a store that answers without faults and a gate narrower than
\* the program's: the runs in which walkers wait for one another.
LiveInit ==
    /\ InitWith(MaxDirs, 0)
    /\ size <= MaxSmallCap
    /\ gcm = GetIdle
    /\ scm = SetIdle

\* The context of the command is cancelled (a signal, a deadline).  The
\* program reads ctx in sema.Acquire and in ListWithContext only, so a
\* cancellation at another moment is the same cancellation seen when the next
\* walker gets there.
Cancel ==
    /\ ~cancelled
    /\ lpc = "walk"
    /\ \E w \in Walkers : pc[w] \in {"acquire", "call"}
    /\ cancelled' = TRUE
    /\ UNCHANGED <<size, cur, store, pc, parent, locals, shared, history, output>>
    /\ UNCHANGED others

\* Mutant of Acquire: the gate admits without counting the slots taken.
AcquireUnbounded(w) ==
    /\ pc[w] = "acquire"
    /\ ~cancelled
    /\ cur' = cur + 1
    /\ acquired' = [acquired EXCEPT ![w] = @ + 1]
    /\ pc' = [pc EXCEPT ![w] = "call"]
    /\ UNCHANGED <<size, cancelled, store, parent, locals, shared, released, output>>

\* sema.Acquire(ctx, 1) returns nil: a slot is free and ctx is not done.
Acquire(w) ==
    /\ pc[w] = "acquire"
    /\ ~cancelled
    /\ cur < size
    /\ cur' = cur + 1
    /\ acquired' = [acquired EXCEPT ![w] = @ + 1]
    /\ pc' = [pc EXCEPT ![w] = "call"]
    /\ UNCHANGED <<size, cancelled, store, parent, locals, shared, released, output>>

\* Mutant of AcquireFail: the wait for a slot does not watch ctx
\* (sema.Acquire(context.Background(), 1)).
AcquireIgnoresCtx(w) ==
    /\ pc[w] = "acquire"
    /\ cancelled
    /\ cur < size
    /\ cur' = cur + 1
    /\ acquired' = [acquired EXCEPT ![w] = @ + 1]
    /\ pc' = [pc EXCEPT ![w] = "call"]
    /\ UNCHANGED <<size, cancelled, store, parent, locals, shared, released, output>>

\* sema.Acquire(ctx, 1) returns ctx.Err(); listSecretDir and then
\* listSecretDirRecurse return (nil, err).
AcquireFail(w) ==
    /\ pc[w] = "acquire"
    /\ cancelled
    /\ ret' = [ret EXCEPT ![w] = Result(NilSlice, CtxErr)]
    /\ pc' = [pc EXCEPT ![w] = "returned"]
    /\ UNCHANGED <<gate, store, parent, resp, subPaths, idx, loaded, shared,
                   history, output>>

\* Mutant of ListSecretDirResult: the error of the call is formatted with %v,
\* so that the error returned no longer wraps the context's error.
ListSecretDirResultUnwrapped(path, r) ==
    CASE r.kind = "forbidden" -> Result(Slice(<<>>), NoErr)
      [] r.kind = "error"     -> Result(NilSlice, ListErr(path, "text"))
      [] r.kind = "canceled"  -> Result(NilSlice, ListErr(path, "text"))
      [] r.kind = "nil"       -> Result(Slice(<<>>), NoErr)
      [] r.kind = "nokeys"    -> Result(NilSlice, NoKeysErr(path))
      [] OTHER ->
           LET keys == interfaceSliceToStringSlice(r.keys)
           IN  IF keys.err # NoErr THEN Result(NilSlice, KeysErr(keys.err))
               ELSE keys

\* Mutant of ListSecretDirResult: no check of data == nil, so that a path
\* without data is looked up for its keys and reported as lacking them.
ListSecretDirResultNoNilCheck(path, r) ==
    CASE r.kind = "forbidden" -> Result(Slice(<<>>), NoErr)
      [] r.kind = "error"     -> Result(NilSlice, ListErr(path, "remote"))
      [] r.kind = "canceled"  -> Result(NilSlice, ListErr(path, "canceled"))
      [] r.kind = "nil"       -> Result(NilSlice, NoKeysErr(path))
      [] r.kind = "nokeys"    -> Result(NilSlice, NoKeysErr(path))
      [] OTHER ->
           LET keys == interfaceSliceToStringSlice(r.keys)
           IN  IF keys.err # NoErr THEN Result(NilSlice, KeysErr(keys.err))
               ELSE keys

\* What listSecretDir makes of the (data, err) of ListWithContext.
ListSecretDirResult(path, r) ==
    CASE r.kind = "forbidden" -> Result(Slice(<<>>), NoErr)
      [] r.kind = "error"     -> Result(NilSlice, ListErr(path, "remote"))
      [] r.kind = "canceled"  -> Result(NilSlice, ListErr(path, "canceled"))
      [] r.kind = "nil"       -> Result(Slice(<<>>), NoErr)
      [] r.kind = "nokeys"    -> Result(NilSlice, NoKeysErr(path))
      [] OTHER ->
           LET keys == interfaceSliceToStringSlice(r.keys)
           IN  IF keys.err # NoErr THEN Result(NilSlice, KeysErr(keys.err))
               ELSE keys

\* What the call for path w may return: once ctx is cancelled the request is
\* abandoned with the context's error (a call that completes first is a call
\* that returns before the cancellation); else the store answers, the same
\* for a path it was asked before.
Answers(w) ==
    IF cancelled THEN {Resp("canceled", <<>>)}
    ELSE IF w \in DOMAIN remote THEN {remote[w]}
    ELSE Responses(dirBudget, faultBudget)

\* Mutant of Release: the slot is never given back.
ReleaseLeak(w) ==
    /\ cur' = cur
    /\ released' = released

\* Mutant of Release: the slot is given back only when the call was not cut
\* short by the cancellation (a Release placed after the error return).
ReleaseUnlessCancelled(w) ==
    /\ cur' = (IF cancelled THEN cur ELSE cur - 1)
    /\ released' = [released EXCEPT ![w] = IF cancelled THEN @ ELSE @ + 1]

\* sema.Release(1)
Release(w) ==
    /\ cur' = cur - 1
    /\ released' = [released EXCEPT ![w] = @ + 1]

\* client.Logical().ListWithContext(ctx, ...) returns (data, err); the slot is
\* released, listSecretDir inspects the answer and returns, and
\* listSecretDirRecurse returns the error or enters its loop.
ListReturn(w) ==
    /\ pc[w] = "call"
    /\ \E r \in Answers(w) :
          /\ resp' = [resp EXCEPT ![w] = r]
          /\ IF r.kind = "canceled" \/ w \in DOMAIN remote
             THEN UNCHANGED store
             ELSE /\ remote' = (w :> r) @@ remote
                  /\ dirBudget' = dirBudget - NDirs(r.keys)
                  /\ faultBudget' = faultBudget - (IF IsFault(r) THEN 1 ELSE 0)
          /\ Release(w)
          /\ stderr' = IF r.kind = "forbidden" THEN Append(stderr, w) ELSE stderr
          /\ LET keys == ListSecretDirResult(w, r)
             IN  IF keys.err # NoErr
                 THEN /\ ret' = [ret EXCEPT ![w] = Result(NilSlice, keys.err)]
                      /\ pc' = [pc EXCEPT ![w] = "returned"]
                      /\ UNCHANGED <<subPaths, idx, result>>
                 ELSE /\ subPaths' = [subPaths EXCEPT ![w] = keys.value.elems]
                      /\ idx' = [idx EXCEPT ![w] = 1]
                      /\ result' = [result EXCEPT ![w] = Slice(<<>>)]
                      /\ pc' = [pc EXCEPT ![w] = "loop"]
                      /\ UNCHANGED ret
    /\ UNCHANGED <<size, cancelled, parent, loaded, mutex, wg, acquired,
                   stdout, listallRet, lpc>>

\* next := path + subPath
NextPath(w) == w \o subPaths[w][idx[w]]

\* A leaf entry: the append of line 114 reads the slice header of result...
LeafLoad(w) ==
    /\ pc[w] = "loop"
    /\ idx[w] <= Len(subPaths[w])
    /\ ~HasSuffix(NextPath(w), <<Sep>>)
    /\ loaded' = [loaded EXCEPT ![w] = result[w]]
    /\ pc' = [pc EXCEPT ![w] = "append"]
    /\ UNCHANGED <<gate, store, parent, resp, subPaths, idx, ret, shared, history, output>>

\* ... and stores the longer slice; continue.
LeafStore(w) ==
    /\ pc[w] = "append"
    /\ result' = [result EXCEPT ![w] =
           AppendAll(loaded[w], <<Result(Slice(<<NextPath(w)>>), NoErr)>>)]
    /\ loaded' = [loaded EXCEPT ![w] = NilSlice]
    /\ idx' = [idx EXCEPT ![w] = @ + 1]
    /\ pc' = [pc EXCEPT ![w] = "loop"]
    /\ UNCHANGED <<gate, store, parent, resp, subPaths, ret, mutex, wg,
                   history, output>>

\* Mutant of Spawn: a goroutine is started for an entry whether or not its
\* path ends in the separator.
SpawnAnyEntry(w) ==
    /\ pc[w] = "loop"
    /\ idx[w] <= Len(subPaths[w])
    /\ NextPath(w) \notin Walkers
    /\ StartWalker(NextPath(w), w)
    /\ UNCHANGED <<gate, store, output>>

\* A directory entry: wg.Add(1); go func() { ... listSecretDirRecurse(..., next) ... }()
Spawn(w) ==
    /\ pc[w] = "loop"
    /\ idx[w] <= Len(subPaths[w])
    /\ HasSuffix(NextPath(w), <<Sep>>)
    /\ NextPath(w) \notin Walkers    \* the names of a listing are distinct
    /\ StartWalker(NextPath(w), w)
    /\ UNCHANGED <<gate, store, output>>

\* The loop after wg.Wait(): the first error of result, or all values appended.
RECURSIVE Collect(_, _)
Collect(rs, acc) ==
    IF rs = <<>> THEN Result(Slice(acc), NoErr)
    ELSE IF Head(rs).err # NoErr THEN Result(NilSlice, Head(rs).err)
    ELSE Collect(Tail(rs), acc \o Head(rs).value.elems)

\* Mutant of Wait: the walker collects without waiting for its children.
WaitNoJoin(w) ==
    /\ AtWait(w)
    /\ ret' = [ret EXCEPT ![w] = Collect(result[w].elems, <<>>)]
    /\ pc' = [pc EXCEPT ![w] = "returned"]
    /\ UNCHANGED <<gate, store, parent, resp, subPaths, idx, loaded, shared,
                   history, output>>

\* wg.Wait() returns; listSecretDirRecurse returns what the loop collects.
Wait(w) ==
    /\ AtWait(w)
    /\ wg[w] = 0
    /\ ret' = [ret EXCEPT ![w] = Collect(result[w].elems, <<>>)]
    /\ pc' = [pc EXCEPT ![w] = "returned"]
    /\ UNCHANGED <<gate, store, parent, resp, subPaths, idx, loaded, shared,
                   history, output>>

\* The goroutine of a child, after its listSecretDirRecurse returned:
\* mutex.Lock(), and the append reads the slice header of the parent's result...
Lock(w) ==
    /\ pc[w] = "returned"
    /\ w # RootPath
    /\ mutex[parent[w]] = NoOne
    /\ mutex' = [mutex EXCEPT ![parent[w]] = w]
    /\ loaded' = [loaded EXCEPT ![w] = result[parent[w]]]
    /\ pc' = [pc EXCEPT ![w] = "locked"]
    /\ UNCHANGED <<gate, store, parent, resp, subPaths, idx, ret, result, wg,
                   history, output>>

\* ... stores the longer slice; the deferred mutex.Unlock() and wg.Done() run.
Unlock(w) ==
    /\ pc[w] = "locked"
    /\ result' = [result EXCEPT ![parent[w]] =
           AppendAll(loaded[w],
                     <<IF ret[w].err # NoErr THEN Result(NilSlice, ret[w].err)
                       ELSE Result(ret[w].value, NoErr)>>)]
    /\ mutex' = [mutex EXCEPT ![parent[w]] = NoOne]
    /\ wg' = [wg EXCEPT ![parent[w]] = @ - 1]
    /\ loaded' = [loaded EXCEPT ![w] = NilSlice]
    /\ pc' = [pc EXCEPT ![w] = "done"]
    /\ UNCHANGED <<gate, store, parent, resp, subPaths, idx, ret, history, output>>

\* Mutant of PrintAll: fmt.Println(path), the separator left in place.
PrintAllWhole(paths) == paths

\* fmt.Println(path[1:]) for each path of result
PrintAll(paths) == [k \in 1..Len(paths) |-> StripFirst(paths[k])]

\* listall after listSecretDirRecurse(..., "/") returned.
ListallFinish ==
    /\ lpc = "walk"
    /\ pc[RootPath] = "returned"
    /\ IF ret[RootPath].err # NoErr
       THEN /\ listallRet' = ret[RootPath].err
            /\ UNCHANGED stdout
       ELSE /\ stdout' = stdout \o PrintAll(ret[RootPath].value.elems)
            /\ listallRet' = NoErr
    /\ lpc' = "done"
    /\ UNCHANGED <<gate, store, pc, parent, locals, shared, history, stderr>>
    /\ UNCHANGED others

\* A step of the program: of the goroutine of some walker, or of listall.
Step ==
    \/ \E w \in Walkers : Acquire(w) /\ UNCHANGED others
    \/ \E w \in Walkers : AcquireFail(w) /\ UNCHANGED others
    \/ \E w \in Walkers : ListReturn(w) /\ UNCHANGED others
    \/ \E w \in Walkers : LeafLoad(w) /\ UNCHANGED others
    \/ \E w \in Walkers : LeafStore(w) /\ UNCHANGED others
    \/ \E w \in Walkers : Spawn(w) /\ UNCHANGED others
    \/ \E w \in Walkers : Wait(w) /\ UNCHANGED others
    \/ \E w \in Walkers : Lock(w) /\ UNCHANGED others
    \/ \E w \in Walkers : Unlock(w) /\ UNCHANGED others
    \/ ListallFinish

Next == Step \/ Cancel

Spec == Init /\ [][Next]_vars

\* The scheduler runs a goroutine that can take a step, and a remote call
\* returns; nothing obliges the context to be cancelled.
FairSpec == LiveInit /\ [][Next]_vars /\ WF_vars(Step)

\* ---------------------------------------------------------- getcustommetas
\* The goroutines started so far, one per argument, in the order of args.
Tasks == 1..Len(gcm.pc)

\* An error of a call for the metadata of a secret; cause as in ListErr.
MetaErr(path, cause) == [kind |-> "meta", path |-> path, cause |-> cause]

\* What GetMetadata returns: (meta, err), of meta its CustomMetadata.
MetaResp(custom, err) == [custom |-> custom, err |-> err]
\* A map[string]any of custom metadata: nil, or what it holds under the keys
\* "owner" and "path" (Unset: no such key).
Unset == <<>>
NilMap == [isnil |-> TRUE, owner |-> Unset, path |-> Unset]
\* make(map[string]any)
EmptyMap == [isnil |-> FALSE, owner |-> Unset, path |-> Unset]

\* What the call for path may return: the secret's custom metadata (none, or
\* some), or an error; the context's error once ctx is cancelled.
MetaAnswers(path) ==
    IF gcm.cancelled THEN {MetaResp(NilMap, MetaErr(path, "canceled"))}
    ELSE {MetaResp(NilMap, NoErr),
          MetaResp([EmptyMap EXCEPT !.owner = <<"t">>], NoErr),
          MetaResp(NilMap, MetaErr(path, "remote"))}

\* m[key] = value
MapSet(m, key, value) == [m EXCEPT ![key] = value]

\* The entry goroutine k appends under the mutex: its error, or the custom
\* metadata with the path of the secret under "path".
MetaEntry(k) ==
    IF gcm.meta[k].err # NoErr THEN Result(NilMap, gcm.meta[k].err)
    ELSE Result(MapSet(IF gcm.meta[k].custom = NilMap THEN EmptyMap
                       ELSE gcm.meta[k].custom,
                       "path", gcm.args[k]),
                NoErr)

\* The range loop: wg.Add(1); go func() { ... }() for the next argument; the
\* goroutine reads the path of its own iteration (the loop variable is per
\* iteration since Go 1.22).
GetSpawn ==
    /\ gcm.main = "loop"
    /\ Len(gcm.pc) < Len(gcm.args)
    /\ gcm' = [gcm EXCEPT !.wg = @ + 1,
                          !.pc = Append(@, "acquire"),
                          !.meta = Append(@, MetaResp(NilMap, NoErr)),
                          !.loaded = Append(@, <<>>)]
    /\ UNCHANGED <<walk, scm>>

\* ctx.Context is cancelled while a goroutine has still to read it.
GetCancel ==
    /\ ~gcm.cancelled
    /\ gcm.main = "loop"
    /\ \/ Len(gcm.pc) < Len(gcm.args)
       \/ \E k \in Tasks : gcm.pc[k] \in {"acquire", "call"}
    /\ gcm' = [gcm EXCEPT !.cancelled = TRUE]
    /\ UNCHANGED <<walk, scm>>

\* sema.Acquire(ctx.Context, 1) returns nil.
GetAcquire(k) ==
    /\ gcm.pc[k] = "acquire"
    /\ ~gcm.cancelled
    /\ gcm.cur < gcm.size
    /\ gcm' = [gcm EXCEPT !.cur = @ + 1, !.pc[k] = "call"]
    /\ UNCHANGED <<walk, scm>>

\* sema.Acquire(ctx.Context, 1) returns ctx.Err(); the append of line 197
\* reads the slice header of result, the mutex not taken...
GetAcquireFail(k) ==
    /\ gcm.pc[k] = "acquire"
    /\ gcm.cancelled
    /\ gcm' = [gcm EXCEPT !.loaded[k] = gcm.result, !.pc[k] = "failed"]
    /\ UNCHANGED <<walk, scm>>

\* ... and stores the longer slice; return, the deferred wg.Done() runs.
GetFailStore(k) ==
    /\ gcm.pc[k] = "failed"
    /\ gcm' = [gcm EXCEPT !.result = Append(gcm.loaded[k], Result(NilMap, CtxErr)),
                          !.loaded[k] = <<>>,
                          !.wg = @ - 1,
                          !.pc[k] = "done"]
    /\ UNCHANGED <<walk, scm>>

\* GetMetadata(ctx.Context, path) returns (meta, err); sema.Release(1).
GetMetadataReturn(k) ==
    /\ gcm.pc[k] = "call"
    /\ \E r \in MetaAnswers(gcm.args[k]) :
          gcm' = [gcm EXCEPT !.meta[k] = r, !.cur = @ - 1, !.pc[k] = "lock"]
    /\ UNCHANGED <<walk, scm>>

\* mutex.Lock(), and the append reads the slice header of result...
GetLock(k) ==
    /\ gcm.pc[k] = "lock"
    /\ gcm.mutex = 0
    /\ gcm' = [gcm EXCEPT !.mutex = k, !.loaded[k] = gcm.result, !.pc[k] = "locked"]
    /\ UNCHANGED <<walk, scm>>

\* ... stores the longer slice; the deferred mutex.Unlock() and wg.Done() run.
GetUnlock(k) ==
    /\ gcm.pc[k] = "locked"
    /\ gcm' = [gcm EXCEPT !.result = Append(gcm.loaded[k], MetaEntry(k)),
                          !.loaded[k] = <<>>,
                          !.mutex = 0,
                          !.wg = @ - 1,
                          !.pc[k] = "done"]
    /\ UNCHANGED <<walk, scm>>

\* The loop after wg.Wait(): the first error of result, or all values.
RECURSIVE GetCollect(_, _)
GetCollect(rs, acc) ==
    IF rs = <<>> THEN Result(acc, NoErr)
    ELSE IF Head(rs).err # NoErr THEN Result(<<>>, Head(rs).err)
    ELSE GetCollect(Tail(rs), Append(acc, Head(rs).value))

\* wg.Wait() returns; the first error is returned, or customMetas is encoded
\* to os.Stdout as one JSON document.
GetWait ==
    /\ gcm.main = "loop"
    /\ Len(gcm.pc) = Len(gcm.args)
    /\ gcm.wg = 0
    /\ LET customMetas == GetCollect(gcm.result, <<>>)
       IN  gcm' = [gcm EXCEPT !.main = "done",
                             !.ret = customMetas.err,
                             !.out = IF customMetas.err # NoErr THEN @
                                     ELSE Append(@, customMetas.value)]
    /\ UNCHANGED <<walk, scm>>

GetStep ==
    \/ GetSpawn
    \/ \E k \in Tasks : GetAcquire(k)
    \/ \E k \in Tasks : GetAcquireFail(k)
    \/ \E k \in Tasks : GetFailStore(k)
    \/ \E k \in Tasks : GetMetadataReturn(k)
    \/ \E k \in Tasks : GetLock(k)
    \/ \E k \in Tasks : GetUnlock(k)
    \/ GetWait

GetNext == GetStep \/ GetCancel

\* The process runs getcustommetas with some arguments; listall and
\* setcustommetas never start.
GetInit ==
    /\ InitWith(0, 0)
    /\ size = concurrency
    /\ gcm \in {GetStart(a, c) : a \in ArgLists, c \in Capacities}
    /\ scm = SetIdle

GetSpec == GetInit /\ [][GetNext]_vars

\* ---------------------------------------------------------- setcustommetas
\* json.NewDecoder(os.Stdin).Decode(&customMetas) failed
DecodeErr == [kind |-> "decode", path |-> <<>>, cause |-> "nil"]
\* errors.New("found object without path key")
NoPathErr == [kind |-> "nopath", path |-> <<>>, cause |-> "nil"]
\* errors.New("found object with non-string value for path")
PathNotStringErr == [kind |-> "pathnotstring", path |-> <<>>, cause |-> "nil"]
\* fmt.Errorf("secret on path %s does not exist", path)
NotExistErr(path) == [kind |-> "notexist", path |-> path, cause |-> "nil"]

\* delete(customMeta, "path")
DeletePath(customMeta) == [customMeta EXCEPT !.path = Missing]

\* A call made to the store: GetMetadata ("get") or PutMetadata ("put", with
\* the custom metadata written), and how it ended: "ok", "nil" (no metadata
\* and no error) or "err".
Call(op, path, meta, outcome) ==
    [op |-> op, path |-> path, meta |-> meta, outcome |-> outcome]

\* The input is decoded into customMetas, or the decoder's error is returned.
SetDecode ==
    /\ scm.pc = "decode"
    /\ scm' = IF scm.stdin.json
              THEN [scm EXCEPT !.customMetas = scm.stdin.objects, !.pc = "get"]
              ELSE [scm EXCEPT !.ret = DecodeErr, !.pc = "done"]
    /\ UNCHANGED <<walk, gcm>>

\* How GetMetadata may end for path: with the metadata of a secret the store
\* holds, with none for one it does not hold, or with an error.
GetOutcomes(path) ==
    {IF scm.kv[path] = Absent THEN "nil" ELSE "ok", "err"}

\* Mutant of SetGet: no check of meta == nil, so that the metadata of a secret
\* that does not exist is written all the same.
SetGetNoNilCheck ==
    /\ scm.pc = "get"
    /\ scm.pos <= Len(scm.customMetas)
    /\ LET customMeta == scm.customMetas[scm.pos]
           pathInterface == customMeta.path
       IN  IF pathInterface = Missing
           THEN scm' = [scm EXCEPT !.ret = NoPathErr, !.pc = "done"]
           ELSE IF pathInterface.type # "string"
           THEN scm' = [scm EXCEPT !.ret = PathNotStringErr, !.pc = "done"]
           ELSE \E o \in GetOutcomes(pathInterface.val) :
                  LET path == pathInterface.val
                      made == Append(scm.calls, Call("get", path, Missing, o))
                  IN  IF o = "err"
                      THEN scm' = [scm EXCEPT !.calls = made,
                                             !.ret = MetaErr(path, "remote"),
                                             !.pc = "done"]
                      ELSE scm' = [scm EXCEPT !.calls = made, !.pc = "put"]
    /\ UNCHANGED <<walk, gcm>>

\* The body of the range loop up to PutMetadata: the path of the object is
\* read and deleted from it, and GetMetadata(ctx.Context, path) is called.
SetGet ==
    /\ scm.pc = "get"
    /\ scm.pos <= Len(scm.customMetas)
    /\ LET customMeta == scm.customMetas[scm.pos]
           pathInterface == customMeta.path
       IN  IF pathInterface = Missing
           THEN scm' = [scm EXCEPT !.ret = NoPathErr, !.pc = "done"]
           ELSE IF pathInterface.type # "string"
           THEN scm' = [scm EXCEPT !.ret = PathNotStringErr, !.pc = "done"]
           ELSE \E o \in GetOutcomes(pathInterface.val) :
                  LET path == pathInterface.val
                      made == Append(scm.calls, Call("get", path, Missing, o))
                  IN  IF o = "err"
                      THEN scm' = [scm EXCEPT !.calls = made,
                                             !.ret = MetaErr(path, "remote"),
                                             !.pc = "done"]
                      ELSE IF o = "nil"
                      THEN scm' = [scm EXCEPT !.calls = made,
                                             !.ret = NotExistErr(path),
                                             !.pc = "done"]
                      ELSE scm' = [scm EXCEPT !.calls = made, !.pc = "put"]
    /\ UNCHANGED <<walk, gcm>>

\* PutMetadata(ctx.Context, path, {CustomMetadata: customMeta}): the store
\* takes the write and the loop goes on, or the error is returned.
SetPut ==
    /\ scm.pc = "put"
    /\ LET path == scm.customMetas[scm.pos].path.val
           customMeta == DeletePath(scm.customMetas[scm.pos])
       IN  \E o \in {"ok", "err"} :
             LET made == Append(scm.calls, Call("put", path, customMeta, o))
             IN  IF o = "err"
                 THEN scm' = [scm EXCEPT !.calls = made,
                                        !.ret = MetaErr(path, "remote"),
                                        !.pc = "done"]
                 ELSE scm' = [scm EXCEPT !.calls = made,
                                        !.kv[path] = customMeta,
                                        !.pos = @ + 1,
                                        !.pc = "get"]
    /\ UNCHANGED <<walk, gcm>>

\* The range loop is over: return nil.
SetFinish ==
    /\ scm.pc = "get"
    /\ scm.pos > Len(scm.customMetas)
    /\ scm' = [scm EXCEPT !.pc = "done"]
    /\ UNCHANGED <<walk, gcm>>

SetNext ==
    \/ SetDecode
    \/ SetGet
    \/ SetPut
    \/ SetFinish

\* The process runs setcustommetas on some input against some store; listall
\* and getcustommetas never start.
SetInit ==
    /\ InitWith(0, 0)
    /\ size = concurrency
    /\ gcm = GetIdle
    /\ scm \in {SetStart(in, kv) : in \in Inputs, kv \in MetaStores}

SetSpec == SetInit /\ [][SetNext]_vars

\* ------------------------------------------------- the tree of the store
\* The names the store shows at path p (so far as it was asked).
ShownKeys(p) ==
    IF p \in DOMAIN remote /\ remote[p].kind = "ok" /\ AllStrings(remote[p].keys)
    THEN remote[p].keys ELSE <<>>

\* The names the store holds at path p, shown or refused.
HeldKeys(p) ==
    IF p \in DOMAIN remote /\ remote[p].kind \in {"ok", "forbidden"}
       /\ AllStrings(remote[p].keys)
    THEN remote[p].keys ELSE <<>>

\* The leaf paths of the sub-tree at p: of the whole tree (full), or of the
\* part the store shows.
RECURSIVE Leaves(_, _)
Leaves(p, full) ==
    LET keys == IF full THEN HeldKeys(p) ELSE ShownKeys(p)
    IN  UNION {IF IsDirEntry(keys[k]) THEN Leaves(p \o keys[k].val, full)
               ELSE {p \o keys[k].val} : k \in 1..Len(keys)}

IsPrefix(p, q) == Len(p) <= Len(q) /\ SubSeq(q, 1, Len(p)) = p

NoDuplicates(s) == \A j, k \in 1..Len(s) : s[j] = s[k] => j = k

\* The error of walker w's own listSecretDir call, NoErr if it succeeded.
ListingErr(w) ==
    IF acquired[w] = 0 THEN CtxErr ELSE ListSecretDirResult(w, resp[w]).err

\* Walker w's listing succeeded with a well-formed list of names.
ListedOk(w) == acquired[w] = 1 /\ resp[w].kind = "ok" /\ AllStrings(resp[w].keys)

\* The top-level listSecretDirRecurse has returned.
WalkReturned == Returned(RootPath)

\* errors.Is(err, context.Canceled): err is the context's error or wraps it
\* (%w) as its cause.
IsCancellation(err) == err.cause = "canceled"

\* A response listSecretDir rejects as malformed: no keys list, or a keys list
\* with an element that is not a string.
Malformed(r) == r.kind = "nokeys" \/ (r.kind = "ok" /\ ~AllStrings(r.keys))

\* A response without entries: no data and no error, or an empty keys list.
EmptyAnswer(r) == r.kind = "nil" \/ (r.kind = "ok" /\ r.keys = <<>>)

\* The paths for which ListWithContext was called.
ListedPaths == {w \in Walkers : acquired[w] > 0}

\* The directory paths named in the listings the store returned.
ShownDirs ==
    UNION {LET keys == ShownKeys(p)
           IN  {p \o keys[k].val : k \in {j \in 1..Len(keys) : IsDirEntry(keys[j])}} :
           p \in DOMAIN remote}

\* The leaf paths named in the listings the store returned.
ShownLeaves ==
    UNION {LET keys == ShownKeys(p)
           IN  {p \o keys[k].val : k \in {j \in 1..Len(keys) : ~IsDirEntry(keys[j])}} :
           p \in DOMAIN remote}

\* ------------------------------------------------------------------ claims

\* C1: when every listing succeeds, the top-level walk returns no error and
\* exactly the leaf paths reachable from the root, each once, whatever the
\* gate capacity and the interleaving.
C1_ReturnsExactlyTheLeaves ==
    (WalkReturned /\ \A w \in Walkers : ListedOk(w))
    => /\ ret[RootPath].err = NoErr
       /\ NoDuplicates(ret[RootPath].value.elems)
       /\ Range(ret[RootPath].value.elems) = Leaves(RootPath, TRUE)

\* C2: the calls past sema.Acquire and not yet past sema.Release never
\* outnumber the capacity of the gate.
C2_GateNeverOverfull ==
    /\ Cardinality({w \in Walkers : pc[w] = "call"}) <= size
    /\ cur = Cardinality({w \in Walkers : pc[w] = "call"})

\* The gate is full and a walker waits for a slot.
C2_Witness ==
    /\ cur = size
    /\ \E w \in Walkers : pc[w] = "acquire"

\* C3: if the remote call of some walker fails with an error other than
\* forbidden (or returns a malformed listing), the top-level walk returns an
\* error and a nil result.
C3_AnyFailureFailsTheWalk ==
    (WalkReturned /\ \E w \in Walkers : acquired[w] = 1 /\ ListingErr(w) # NoErr)
    => /\ ret[RootPath].err # NoErr
       /\ ret[RootPath].value = NilSlice

\* C4: if one directory D is forbidden and every other listing succeeds, the
\* walk returns no error and exactly the leaves of the whole tree that are not
\* below D, and lists no directory below D.
C4_ForbiddenPrunesOneSubtree ==
    \A d \in Walkers :
        (/\ WalkReturned
         /\ acquired[d] = 1 /\ resp[d].kind = "forbidden"
         /\ \A w \in Walkers \ {d} : ListedOk(w))
        => /\ ret[RootPath].err = NoErr
           /\ NoDuplicates(ret[RootPath].value.elems)
           /\ Range(ret[RootPath].value.elems)
                = Leaves(RootPath, TRUE) \ Leaves(d, TRUE)
           /\ \A w \in Walkers : IsPrefix(d, w) => w = d

\* C5: under fair scheduling, with remote calls that return, the top-level
\* walk eventually returns, whatever the tree and the capacity of the gate.
C5_WalkEventuallyReturns == <>WalkReturned

\* The gate is full with a walker waiting for a slot, while another walker
\* waits at its join for children: more live tasks than slots.
C5_Witness ==
    /\ cur = size
    /\ \E w \in Walkers : pc[w] = "acquire"
    /\ \E w \in Walkers : AtWait(w) /\ wg[w] > 0
    /\ Cardinality({w \in Walkers : ~Returned(w)}) > size

\* C6: the parent's append of a leaf and a child's append of its result never
\* access the parent's result at the same time.
C6_NoConcurrentAppend ==
    \A w \in Walkers :
        pc[w] = "append" => \A c \in Children(w) : pc[c] # "locked"

\* C7: each walker releases the gate exactly once after a successful Acquire,
\* whatever the call returned, and never after a failed one; the gate is empty
\* when the walk has returned.
C7_ReleaseMatchesAcquire ==
    /\ \A w \in Walkers :
          /\ acquired[w] \in {0, 1}
          /\ released[w] = (IF pc[w] \in {"acquire", "call"} THEN 0 ELSE acquired[w])
          /\ pc[w] = "call" => acquired[w] = 1
          /\ pc[w] = "acquire" => acquired[w] = 0
    /\ WalkReturned => cur = 0

\* The walk has returned after one call ended in an error and another walker
\* failed to acquire.
C7_Witness ==
    /\ WalkReturned
    /\ \E w \in Walkers : acquired[w] = 1 /\ released[w] = 1 /\ ListingErr(w) # NoErr
    /\ \E w \in Walkers : acquired[w] = 0 /\ released[w] = 0

\* C8: once the context is cancelled, a walker waiting in sema.Acquire leaves
\* it only with the context's error, and every walker, the top-level one
\* included, eventually returns: none stays blocked.
C8_CancelUnblocksWaiters ==
    /\ [][\A w \in Walkers :
             (cancelled /\ pc[w] = "acquire" /\ pc'[w] # "acquire")
                => (pc'[w] = "returned" /\ ret'[w] = Result(NilSlice, CtxErr))]_vars
    /\ cancelled ~> (\A w \in Walkers : Returned(w))

\* The context is cancelled while the gate is full and a walker waits for a slot.
C8_Witness ==
    /\ cancelled
    /\ cur = size
    /\ \E w \in Walkers : pc[w] = "acquire"

\* C9: a walker returns only after all the children it spawned have ended,
\* failed or not; when listall is done no goroutine of the walk runs.
C9_ReturnsAfterAllChildren ==
    /\ \A w \in Walkers : Returned(w) => \A c \in Children(w) : Ended(c)
    /\ WalkReturned => \A w \in Walkers \ {RootPath} : Ended(w)

\* A walker has returned with a failed child and a successful one.
C9_Witness ==
    \E w \in Walkers :
        /\ Returned(w)
        /\ \E c \in Children(w) : ret[c].err # NoErr
        /\ \E c \in Children(w) : ret[c].err = NoErr

\* C10: listall prints nothing and returns the error when the walk fails, and
\* prints each returned path once, without its first character, when it
\* succeeds.
C10_OutputAllOrNothing ==
    /\ lpc = "walk" => stdout = <<>>
    /\ lpc = "done" =>
          IF ret[RootPath].err # NoErr
          THEN stdout = <<>> /\ listallRet = ret[RootPath].err
          ELSE /\ listallRet = NoErr
               /\ Len(stdout) = Len(ret[RootPath].value.elems)
               /\ \A k \in 1..Len(stdout) :
                     <<Sep>> \o stdout[k] = ret[RootPath].value.elems[k]

\* listall has printed two paths.
C10_Witness == lpc = "done" /\ Len(stdout) >= 2

\* C11: the set of leaf paths a complete, uncancelled walk returns is a
\* function of the store alone (the leaves the store shows), so that any two
\* runs on the same store, under any interleavings and gate capacities,
\* return the same set.
C11_SameLeavesInEveryRun ==
    (WalkReturned /\ ~cancelled /\ ret[RootPath].err = NoErr)
    => Range(ret[RootPath].value.elems) = Leaves(RootPath, FALSE)

\* C12: a walker whose own listing succeeded and of whose children one or
\* more returned an error returns an error, and it is the error one of its
\* children returned.
C12_ReportsAChildsError ==
    \A w \in Walkers :
        (/\ Returned(w)
         /\ ListingErr(w) = NoErr
         /\ \E c \in Children(w) : ret[c].err # NoErr)
        => \E c \in Children(w) : ret[c].err # NoErr /\ ret[w].err = ret[c].err

\* C13: when the walk fails after a cancellation and no listing reported a
\* transport error or a malformed listing, the error the top-level walk
\* returns is the context's error or wraps it.
C13_CancellationIsIdentifiable ==
    (/\ WalkReturned
     /\ cancelled
     /\ ret[RootPath].err # NoErr
     /\ \A w \in Walkers : resp[w].kind # "error" /\ ~Malformed(resp[w]))
    => IsCancellation(ret[RootPath].err)

\* The top-level walk has returned the error of a child's abandoned call,
\* wrapped by listSecretDir.
C13_Witness ==
    /\ WalkReturned
    /\ cancelled
    /\ ret[RootPath].err.kind = "list"
    /\ ret[RootPath].err.path # RootPath

\* C14: a malformed listing makes its walker return an error and use no entry
\* of it (no leaf recorded, no child walked, valid entries included), and the
\* walk then ends with an error.
C14_MalformedListingIsFatal ==
    \A w \in Walkers :
        (acquired[w] = 1 /\ Malformed(resp[w]))
        => /\ ret[w].err # NoErr
           /\ ret[w].value = NilSlice
           /\ subPaths[w] = <<>>
           /\ Children(w) = {}
           /\ result[w] = NilSlice
           /\ WalkReturned =>
                 /\ ret[RootPath].err # NoErr
                 /\ ret[RootPath].value = NilSlice

\* C15: a walker holds a slot of the gate only between its sema.Acquire and
\* the return of its remote call: never while it loops over the listing,
\* spawns, appends, waits at its join or for the mutex, or merges.
C15_SlotHeldOnlyDuringCall ==
    \A w \in Walkers :
        acquired[w] - released[w] = (IF pc[w] = "call" THEN 1 ELSE 0)

\* A walker waits at its join, holding no slot, while its child is in its
\* remote call with the only slot of the gate.
C15_Witness ==
    \E w \in Walkers :
        /\ AtWait(w) /\ wg[w] > 0
        /\ acquired[w] = 1 /\ released[w] = 1
        /\ size = 1 /\ cur = 1
        /\ \E c \in Children(w) : pc[c] = "call"

C17_EmptyListingEndsTheBranch ==
    \A w \in Walkers :
        (released[w] = 1 /\ EmptyAnswer(resp[w]))
        => /\ subPaths[w] = <<>>
           /\ Children(w) = {}
           /\ Returned(w) => ret[w] = Result(Slice(<<>>), NoErr)
           /\ WalkReturned => w \notin Range(ret[RootPath].value.elems)

\* The walk has returned without error after the call for a directory
\* returned no data, and the root's own listing was not empty.
C17_Witness ==
    /\ WalkReturned
    /\ ret[RootPath].err = NoErr
    /\ \E w \in Walkers \ {RootPath} :
          released[w] = 1 /\ resp[w].kind = "nil" /\ Returned(w)

\* C18: in getcustommetas at most size GetMetadata calls are in flight, and
\* after the join result holds one entry per argument (those of the paths
\* when no entry is an error), and an entry with an error makes the command
\* return an error and write nothing to standard output.
C18_OneEntryPerArgument ==
    /\ Cardinality({k \in Tasks : gcm.pc[k] = "call"}) <= gcm.size
    /\ gcm.main = "done" =>
          /\ Len(gcm.result) = Len(gcm.args)
          /\ (\E i \in 1..Len(gcm.result) : gcm.result[i].err # NoErr)
                => (gcm.ret # NoErr /\ gcm.out = <<>>)
          /\ (\A i \in 1..Len(gcm.result) : gcm.result[i].err = NoErr)
                => \A q \in MetaPaths :
                      Cardinality({i \in 1..Len(gcm.result) :
                                      gcm.result[i].value.path = q})
                        = Cardinality({k \in 1..Len(gcm.args) : gcm.args[k] = q})

\* The GetMetadata calls and the PutMetadata calls made so far, in order.
Gets == SelectSeq(scm.calls, LAMBDA c : c.op = "get")
Puts == SelectSeq(scm.calls, LAMBDA c : c.op = "put")

\* The custom metadata of the last PutMetadata the store took for path q,
\* what the store held before the command if there is none.
RECURSIVE LastWrite(_, _)
LastWrite(q, calls) ==
    IF calls = <<>> THEN scm.kv0[q]
    ELSE LET c == calls[Len(calls)]
         IN  IF c.op = "put" /\ c.path = q /\ c.outcome = "ok" THEN c.meta
             ELSE LastWrite(q, SubSeq(calls, 1, Len(calls) - 1))

\* C19: setcustommetas handles the objects in input order: the i-th
\* GetMetadata and the i-th PutMetadata are for the i-th object; a
\* PutMetadata directly follows the GetMetadata of the same path that returned
\* metadata; an object without a string path, and a call that fails, end the
\* command with an error and no further call; the writes taken before stay in
\* the store; without a failure every object is written.
C19_InOrderUntilFirstFailure ==
    /\ Len(Puts) <= Len(Gets)
    /\ Len(Gets) <= Len(Puts) + 1
    /\ Len(Gets) <= Len(scm.customMetas)
    /\ \A i \in 1..Len(Gets) : Gets[i].path = scm.customMetas[i].path.val
    /\ \A i \in 1..Len(Puts) :
          /\ Puts[i].path = scm.customMetas[i].path.val
          /\ Puts[i].meta = DeletePath(scm.customMetas[i])
    /\ \A i \in 1..Len(scm.calls) :
          /\ scm.calls[i].op = "put" =>
                /\ i > 1
                /\ scm.calls[i - 1].op = "get"
                /\ scm.calls[i - 1].path = scm.calls[i].path
                /\ scm.calls[i - 1].outcome = "ok"
                /\ scm.kv0[scm.calls[i].path] # Absent
          /\ scm.calls[i].outcome # "ok" =>
                /\ i = Len(scm.calls)
                /\ scm.pc = "done"
                /\ scm.ret # NoErr
    /\ \A i \in 1..Len(scm.customMetas) :
          scm.customMetas[i].path.type # "string" =>
              /\ Len(Gets) < i
              /\ Len(Gets) = i - 1 => (scm.pc = "done" => scm.ret # NoErr)
    /\ \A q \in MetaPaths : scm.kv[q] = LastWrite(q, scm.calls)
    /\ (scm.pc = "done" /\ scm.ret = NoErr) =>
          /\ Len(Puts) = Len(scm.customMetas)
          /\ \A i \in 1..Len(scm.calls) : scm.calls[i].outcome = "ok"

\* The command has failed at its second object after the write for the first
\* was taken, and the store holds that write.
C19_Witness ==
    /\ scm.pc = "done"
    /\ scm.ret # NoErr
    /\ Len(scm.customMetas) = 2
    /\ Len(Puts) >= 1
    /\ Puts[1].outcome = "ok"
    /\ scm.kv[Puts[1].path] = Puts[1].meta
    /\ scm.kv # scm.kv0

====
